---- MODULE Spec2Model ----
(***************************************************************************)
(* Recurrence evaluator of the weekend planner (src/utils.ts):             *)
(* getWeekMonday and isDateSupport, evaluated on JavaScript Date values    *)
(* in the time zone of the host.                                           *)
(*                                                                         *)
(* A time value (milliseconds since 1970-01-01T00:00:00Z) is kept as the   *)
(* pair [day |-> Day(t), ms |-> TimeWithinDay(t)] of ECMA-262, so that     *)
(* every quantity stays inside 32 bits while milliseconds are exact.       *)
(***************************************************************************)
EXTENDS Integers, FiniteSets, Sequences, TLC

(***************************************************************************)
(* Bounds of the model                                                     *)
(***************************************************************************)
\* weeks of target dates before / after the week of Monday 2023-10-23
WeeksBefore == 4
WeeksAfter == 4
\* largest interval offered (the select of the settings panel offers 1..4)
MaxInterval == 4

(***************************************************************************)
(* Time values                                                             *)
(***************************************************************************)
MsPerDay == 24 * 60 * 60 * 1000
MsPerWeek == 7 * 24 * 60 * 60 * 1000
DaysPerWeek == MsPerWeek \div MsPerDay

\* a time value from a day number and a (possibly out of range) ms count
MakeDate(day, ms) == [day |-> day + (ms \div MsPerDay), ms |-> ms % MsPerDay]

\* t + ms for a time value t and a millisecond count |ms| < 2^30
AddMs(t, ms) == MakeDate(t.day, t.ms + ms)

\* t < u on time values
Before(t, u) == t.day < u.day \/ (t.day = u.day /\ t.ms < u.ms)

\* t - u, as a pair (whole days, ms) with -MsPerDay < ms < MsPerDay
TimeDiff(t, u) == [day |-> t.day - u.day, ms |-> t.ms - u.ms]

\* WeekDay(t) of ECMA-262: 0 = Sunday .. 6 = Saturday (day 0 is a Thursday)
WeekDay(day) == (day + 4) % 7

(***************************************************************************)
(* Proleptic Gregorian calendar: YearFromTime, MonthFromTime, DateFromTime *)
(* and MakeDay of ECMA-262, on day numbers.                                *)
(***************************************************************************)
CivilFromDay(day) ==
    LET z == day + 719468
        era == z \div 146097
        doe == z - era * 146097
        yoe == (doe - (doe \div 1460) + (doe \div 36524) - (doe \div 146096)) \div 365
        doy == doe - (365 * yoe + (yoe \div 4) - (yoe \div 100))
        mp == (5 * doy + 2) \div 153
        d == doy - ((153 * mp + 2) \div 5) + 1
        m == IF mp < 10 THEN mp + 3 ELSE mp - 9
    IN [year |-> yoe + era * 400 + (IF m <= 2 THEN 1 ELSE 0), month |-> m - 1, date |-> d]

YearFromDay(day) == CivilFromDay(day).year
\* 0 = January .. 11 = December
MonthFromDay(day) == CivilFromDay(day).month
DateFromDay(day) == CivilFromDay(day).date

\* day number of the first day of month (0-based) of year
DayFromYearMonth(year, month) ==
    LET m == month + 1
        y == IF m <= 2 THEN year - 1 ELSE year
        era == y \div 400
        yoe == y - era * 400
        doy == ((153 * (IF m > 2 THEN m - 3 ELSE m + 9) + 2) \div 5)
        doe == yoe * 365 + (yoe \div 4) - (yoe \div 100) + doy
    IN era * 146097 + doe - 719468

\* MakeDay(year, month, date): date may be zero, negative or past the month's end
MakeDay(year, month, date) == DayFromYearMonth(year, month) + date - 1

(***************************************************************************)
(* Time zone of the host: offset before and after one transition instant.  *)
(***************************************************************************)
ZoneNames == {"UTC", "Asia/Kolkata", "Europe/Berlin", "America/New_York", "Australia/Sydney"}

ZoneRule(z) ==
    CASE z = "UTC" ->
           [before |-> 0, after |-> 0, at |-> [day |-> 0, ms |-> 0]]
      [] z = "Asia/Kolkata" ->
           [before |-> 19800000, after |-> 19800000, at |-> [day |-> 0, ms |-> 0]]
      \* CEST -> CET at 2023-10-29T01:00:00Z
      [] z = "Europe/Berlin" ->
           [before |-> 7200000, after |-> 3600000, at |-> [day |-> 19659, ms |-> 3600000]]
      \* EDT -> EST at 2023-11-05T06:00:00Z
      [] z = "America/New_York" ->
           [before |-> -14400000, after |-> -18000000, at |-> [day |-> 19666, ms |-> 21600000]]
      \* AEST -> AEDT at 2023-09-30T16:00:00Z
      [] z = "Australia/Sydney" ->
           [before |-> 36000000, after |-> 39600000, at |-> [day |-> 19630, ms |-> 57600000]]

\* offset of local time from UTC, in ms, at the instant t
LocalTZA(t, z) ==
    LET r == ZoneRule(z) IN IF Before(t, r.at) THEN r.before ELSE r.after

\* LocalTime(t): the wall-clock reading of the instant t
LocalTime(t, z) == AddMs(t, LocalTZA(t, z))

\* UTC(local): the instant of a wall-clock reading; a reading that occurs twice
\* or never is interpreted with the offset in force before the transition
UTC(local, z) ==
    LET r == ZoneRule(z)
        u1 == AddMs(local, 0 - r.before)
        u2 == AddMs(local, 0 - r.after)
    IN IF Before(u1, r.at) THEN u1
       ELSE IF ~Before(u2, r.at) THEN u2
       ELSE u1

(***************************************************************************)
(* Date objects: the methods utils.ts calls, on time values.               *)
(***************************************************************************)
\* Date.prototype.getDay: weekday of the local date
getDay(d, z) == WeekDay(LocalTime(d, z).day)

\* Date.prototype.getDate: day of the month of the local date
getDate(d, z) == DateFromDay(LocalTime(d, z).day)

\* Date.prototype.setDate(dt): same local year, month and time of day
setDate(d, dt, z) ==
    LET t == LocalTime(d, z)
    IN UTC(MakeDate(MakeDay(YearFromDay(t.day), MonthFromDay(t.day), dt), t.ms), z)

\* MakeTime(hour, min, sec, ms)
MakeTime(hour, min, sec, ms) == ((hour * 60 + min) * 60 + sec) * 1000 + ms

\* Date.prototype.setHours(hour, min, sec, ms): same local day
setHours(d, hour, min, sec, ms, z) ==
    LET t == LocalTime(d, z)
    IN UTC(MakeDate(t.day, MakeTime(hour, min, sec, ms)), z)

\* the local hours, minutes, seconds and milliseconds of d, as one ms count
TimeOfDay(d, z) == LocalTime(d, z).ms

(***************************************************************************)
(* Date strings: "YYYY-MM-DD" (hasTime = FALSE) and                        *)
(* "YYYY-MM-DDTHH:mm:ss.sssZ" (hasTime = TRUE); both denote UTC.           *)
(***************************************************************************)
\* Date.prototype.toISOString
toISOString(t) ==
    [year |-> YearFromDay(t.day), month |-> MonthFromDay(t.day) + 1,
     date |-> DateFromDay(t.day), hasTime |-> TRUE, ms |-> t.ms]

\* s.split('T')[0]
DatePart(s) == [s EXCEPT !.hasTime = FALSE, !.ms = 0]

\* new Date(string)
ParseDate(s) ==
    MakeDate(MakeDay(s.year, s.month - 1, s.date), IF s.hasTime THEN s.ms ELSE 0)

(***************************************************************************)
(* Numbers as the settings can hold them: an integer, NaN (parseInt of an  *)
(* unparsable value) or undefined (a missing field).                       *)
(***************************************************************************)
Num(n) == [kind |-> "number", v |-> n]
NaN == [kind |-> "NaN", v |-> 0]
Undefined == [kind |-> "undefined", v |-> 0]

ToBoolean(x) == x.kind = "number" /\ x.v # 0

\* x || y with the right operand dropped
OrElseFirst(x, y) == x

\* x || y
OrElse(x, y) == IF ToBoolean(x) THEN x ELSE y

\* Math.abs
MathAbs(x) == IF x.kind = "number" THEN Num(IF x.v < 0 THEN 0 - x.v ELSE x.v) ELSE NaN

\* a % b: NaN for a zero or non-numeric divisor, else the sign of the dividend
Remainder(a, b) ==
    IF a.kind # "number" \/ b.kind # "number" \/ b.v = 0 THEN NaN
    ELSE LET m == IF b.v < 0 THEN 0 - b.v ELSE b.v
         IN Num(IF a.v < 0 THEN 0 - ((0 - a.v) % m) ELSE a.v % m)

\* a === b
StrictEquals(a, b) == a.kind = b.kind /\ a.kind # "NaN" /\ a.v = b.v

\* Math.trunc(diff / MsPerWeek), diff a pair (days, ms): truncation instead
\* of rounding
MathTruncWeeks(diff) ==
    LET pos == MakeDate(diff.day, diff.ms)
        neg == MakeDate(0 - diff.day, 0 - diff.ms)
    IN IF pos.day >= 0 THEN pos.day \div DaysPerWeek ELSE 0 - (neg.day \div DaysPerWeek)

\* Math.round(diff / MsPerWeek), diff a pair (days, ms):
\*   floor((diff + MsPerWeek/2) / MsPerWeek), halves rounding up
MathRoundWeeks(diff) ==
    LET half == MsPerWeek \div 2
        shifted == MakeDate(diff.day + (half \div MsPerDay), diff.ms + (half % MsPerDay))
    IN shifted.day \div DaysPerWeek

(***************************************************************************)
(* src/utils.ts                                                            *)
(***************************************************************************)
\* getWeekMonday with the Sunday case dropped: day === 0 handled like any
\* other weekday
getWeekMondaySundayForward(d, z) ==
    LET date == d
        day == getDay(date, z)
        diff == getDate(date, z) - day + 1
        monday == setDate(date, diff, z)
    IN setHours(monday, 0, 0, 0, 0, z)

\* getWeekMonday without the call of setHours
getWeekMondayKeepTime(d, z) ==
    LET date == d
        day == getDay(date, z)
        diff == getDate(date, z) - day + (IF day = 0 THEN -6 ELSE 1)
    IN setDate(date, diff, z)

\* Date.prototype.setUTCHours(hour, min, sec, ms): same UTC day
setUTCHours(d, hour, min, sec, ms) == MakeDate(d.day, MakeTime(hour, min, sec, ms))

\* getWeekMonday zeroing the UTC time of day instead of the local one
getWeekMondayUTCHours(d, z) ==
    LET date == d
        day == getDay(date, z)
        diff == getDate(date, z) - day + (IF day = 0 THEN -6 ELSE 1)
        monday == setDate(date, diff, z)
    IN setUTCHours(monday, 0, 0, 0, 0)

\* getWeekMonday keeping the day of the month inside the month
getWeekMondayClampMonth(d, z) ==
    LET date == d
        day == getDay(date, z)
        diff == getDate(date, z) - day + (IF day = 0 THEN -6 ELSE 1)
        monday == setDate(date, IF diff < 1 THEN 1 ELSE diff, z)
    IN setHours(monday, 0, 0, 0, 0, z)

getWeekMonday(d, z) ==
    LET date == d
        day == getDay(date, z)
        diff == getDate(date, z) - day + (IF day = 0 THEN -6 ELSE 1)
        monday == setDate(date, diff, z)
    IN setHours(monday, 0, 0, 0, 0, z)

\* the test of the last line of isDateSupport, without the fallback to 1
OnCycleNoFallback(diffWeeks, interval) ==
    StrictEquals(Remainder(MathAbs(Num(diffWeeks)), interval), Num(0))

\* the test of the last line of isDateSupport, counting from the anchor onwards
OnCycleForwardOnly(diffWeeks, interval) ==
    diffWeeks >= 0 /\
    StrictEquals(Remainder(Num(diffWeeks), OrElse(interval, Num(1))), Num(0))

\* Math.abs(diffWeeks) % (interval || 1) === 0
OnCycle(diffWeeks, interval) ==
    StrictEquals(Remainder(MathAbs(Num(diffWeeks)), OrElse(interval, Num(1))), Num(0))

\* isDateSupport counting whole weeks from the anchor instant itself, without
\* moving both dates to the Monday of their week
isDateSupportUnaligned(targetDate, settings, z) ==
    LET interval == settings.interval
        baseDate == settings.baseDate
        diffWeeks == MathTruncWeeks(TimeDiff(targetDate, ParseDate(baseDate)))
    IN OnCycle(diffWeeks, interval)

\* diffWeeks taking the anchor instant as it is, without its week's Monday
diffWeeksAnchorRaw(targetDate, settings, z) ==
    LET baseDate == settings.baseDate
        startMonday == ParseDate(baseDate)
        targetMonday == getWeekMonday(targetDate, z)
    IN MathRoundWeeks(TimeDiff(targetMonday, startMonday))

\* the constant diffWeeks of isDateSupport
diffWeeks(targetDate, settings, z) ==
    LET baseDate == settings.baseDate
        startMonday == getWeekMonday(ParseDate(baseDate), z)
        targetMonday == getWeekMonday(targetDate, z)
    IN MathRoundWeeks(TimeDiff(targetMonday, startMonday))

\* isDateSupport restricted to the weekdays switched on in the settings
isDateSupportDayGated(targetDate, settings, z) ==
    LET interval == settings.interval
        isSaturday == getDay(targetDate, z) = 6
        isSunday == getDay(targetDate, z) = 0
    IN IF ~((isSaturday /\ settings.saturday) \/ (isSunday /\ settings.sunday))
       THEN FALSE
       ELSE OnCycle(diffWeeks(targetDate, settings, z), interval)

isDateSupport(targetDate, settings, z) ==
    LET interval == settings.interval
    IN OnCycle(diffWeeks(targetDate, settings, z), interval)

(***************************************************************************)
(* The same functions on Date objects: a heap is a sequence of time        *)
(* values, a Date object is an index into it.  new Date(x) appends a cell, *)
(* setDate and setHours overwrite the cell of their receiver.              *)
(***************************************************************************)
\* getWeekMonday working on its argument instead of a copy (const date = d)
getWeekMondayObjAliased(h, d, z) ==
    LET date == d
        day == getDay(h[date], z)
        diff == getDate(h[date], z) - day + (IF day = 0 THEN -6 ELSE 1)
        moved == setDate(h[date], diff, z)
        monday == Len(h) + 1
    IN [heap |-> [h EXCEPT ![date] = moved] \o <<setHours(moved, 0, 0, 0, 0, z)>>,
        ret |-> monday]

\* date is a new cell holding the time of d, moved by setDate; monday is a
\* new cell holding the moved time, set to midnight by setHours
getWeekMondayObj(h, d, z) ==
    LET date == Len(h) + 1
        day == getDay(h[d], z)
        diff == getDate(h[d], z) - day + (IF day = 0 THEN -6 ELSE 1)
        moved == setDate(h[d], diff, z)
        monday == Len(h) + 2
    IN [heap |-> h \o <<moved, setHours(moved, 0, 0, 0, 0, z)>>, ret |-> monday]

isDateSupportObj(h, targetDate, settings, z) ==
    LET interval == settings.interval
        baseDate == settings.baseDate
        h1 == Append(h, ParseDate(baseDate))
        start == getWeekMondayObj(h1, Len(h1), z)
        startMonday == start.ret
        targ == getWeekMondayObj(start.heap, targetDate, z)
        targetMonday == targ.ret
        weeks == MathRoundWeeks(TimeDiff(targ.heap[targetMonday], targ.heap[startMonday]))
    IN [heap |-> targ.heap, ret |-> OnCycle(weeks, interval)]

(***************************************************************************)
(* Inputs                                                                  *)
(***************************************************************************)
\* Monday 2023-10-23, the anchor of the test suite
OriginDay == MakeDay(2023, 9, 23)

\* the weeks around the origin, and the week of Monday 2024-12-30 whose
\* days lie in two years
Days ==
    ((OriginDay - 7 * WeeksBefore) .. (OriginDay + 7 * WeeksAfter + 6))
    \cup {MakeDay(2024, 11, 30), MakeDay(2025, 0, 1), MakeDay(2025, 0, 5)}

\* 00:00:00.000, 12:34:56.789 and 23:59:59.999 UTC
TimesOfDay == {0, MakeTime(12, 34, 56, 789), MsPerDay - 1}

Dates == [day : Days, ms : TimesOfDay]

\* "2023-09-27", "2023-10-23", "2023-10-26", "2023-10-29" and
\* "2023-10-22T23:30:00.000Z"
BaseDates ==
    {DatePart(toISOString([day |-> OriginDay + k, ms |-> 0])) : k \in {-26, 0, 3, 6}}
    \cup {toISOString([day |-> OriginDay - 1, ms |-> MakeTime(23, 30, 0, 0)])}

Intervals == {Num(n) : n \in 0 .. MaxInterval} \cup {NaN, Undefined}

SettingsValues ==
    [saturday : {TRUE}, sunday : {TRUE}, interval : Intervals,
     baseDate : BaseDates, customBg : {"undefined"}]

NoDate == [day |-> 0, ms |-> -1]

(***************************************************************************)
(* The evaluator as a state machine: a host time zone, the settings held   *)
(* by the caller, and the last call with its argument and result.          *)
(***************************************************************************)
VARIABLES tz, settings, op, target, monday, support, heap, argRef, retRef

\* the state of the application around the evaluator (see the App section)
VARIABLES weekendDays, loading, syncing, editingDay, modal, localStorage,
          effectPending, fetching, saves, nSaves, suggest, apiKey, escaped, cards,
          response, upload, nUploads

\* the locals of the callback that computes groupedWeeks, and what it returns
VARIABLES startDate, endDate, current, currentWeek, weeks, returned

utilVars == <<op, target, monday, support, heap, argRef, retRef>>

memoVars == <<startDate, endDate, current, currentWeek, weeks, returned>>

appVars == <<weekendDays, loading, syncing, editingDay, modal, localStorage,
             effectPending, fetching, saves, nSaves, suggest, apiKey, escaped, cards,
             response, upload, nUploads>>

vars == <<tz, settings, utilVars, appVars, memoVars>>

\* the callback of groupedWeeks is not being followed
MemoAbsent ==
    /\ startDate = NoDate
    /\ endDate = NoDate
    /\ current = NoDate
    /\ currentWeek = << >>
    /\ weeks = << >>
    /\ returned = FALSE

\* the application is not running
AppAbsent ==
    /\ weekendDays = << >>
    /\ loading = FALSE
    /\ syncing = FALSE
    /\ editingDay = << >>
    /\ modal = << >>
    /\ localStorage = << >>
    /\ effectPending = FALSE
    /\ fetching = FALSE
    /\ saves = << >>
    /\ nSaves = 0
    /\ suggest = << >>
    /\ apiKey = FALSE
    /\ escaped = FALSE
    /\ cards = << >>
    /\ response = << >>
    /\ upload = << >>
    /\ nUploads = 0

Init ==
    /\ tz \in ZoneNames
    /\ settings \in SettingsValues
    /\ op = "none"
    /\ target = NoDate
    /\ monday = NoDate
    /\ support = FALSE
    /\ heap = << >>
    /\ argRef = 0
    /\ retRef = 0
    /\ AppAbsent
    /\ MemoAbsent

\* an idle caller evaluates getWeekMonday(d) on a Date object holding d
CallGetWeekMonday ==
    \E d \in Dates :
        /\ op = "none"
        /\ op' = "getWeekMonday"
        /\ target' = d
        /\ monday' = getWeekMonday(d, tz)
        /\ support' = FALSE
        /\ LET r == getWeekMondayObj(<<d>>, 1, tz)
           IN heap' = r.heap /\ argRef' = 1 /\ retRef' = r.ret
        /\ UNCHANGED <<tz, settings, appVars, memoVars>>

\* an idle caller evaluates isDateSupport(d, settings) on a Date object holding d
CallIsDateSupport ==
    \E d \in Dates :
        /\ op = "none"
        /\ op' = "isDateSupport"
        /\ target' = d
        /\ monday' = NoDate
        /\ support' = isDateSupport(d, settings, tz)
        /\ LET r == isDateSupportObj(<<d>>, 1, settings, tz)
           IN heap' = r.heap /\ argRef' = 1 /\ retRef' = 0
        /\ UNCHANGED <<tz, settings, appVars, memoVars>>

\* the caller has used the result and drops it
Return ==
    /\ op # "none"
    /\ op' = "none"
    /\ target' = NoDate
    /\ monday' = NoDate
    /\ support' = FALSE
    /\ heap' = << >>
    /\ argRef' = 0
    /\ retRef' = 0
    /\ UNCHANGED <<tz, settings, appVars, memoVars>>

Next == CallGetWeekMonday \/ CallIsDateSupport \/ Return

Spec == Init /\ [][Next]_vars

TypeOK ==
    /\ tz \in ZoneNames
    /\ settings \in SettingsValues
    /\ op \in {"none", "getWeekMonday", "isDateSupport"}
    /\ target \in Dates \cup {NoDate}
    /\ support \in BOOLEAN

(***************************************************************************)
(* Reference notions for the properties                                    *)
(***************************************************************************)
\* the local calendar day of an instant
LocalDay(d, z) == LocalTime(d, z).day

\* number of the Monday-to-Sunday week of a day (day -3 is a Monday)
WeekOf(day) == (day + 3) \div 7

\* the Monday of week w
MondayOfWeek(w) == 7 * w - 3

TargetWeek == WeekOf(LocalDay(target, tz))
AnchorWeek == WeekOf(LocalDay(ParseDate(settings.baseDate), tz))

FirstWeek == WeekOf(OriginDay) - WeeksBefore
LastWeek == WeekOf(OriginDay) + WeeksAfter

\* a date of week w in every zone: its Wednesday, 12:34:56.789 UTC
WeekRep(w) == [day |-> MondayOfWeek(w) + 2, ms |-> MakeTime(12, 34, 56, 789)]

\* the target dates of local week w (their UTC day is at most one day off)
DatesOfWeek(w) ==
    {d \in [day : {x \in (MondayOfWeek(w) - 1) .. (MondayOfWeek(w) + 7) : x \in Days},
            ms : TimesOfDay] : WeekOf(LocalDay(d, tz)) = w}

IntervalAtLeastOne == settings.interval.kind = "number" /\ settings.interval.v >= 1

(***************************************************************************)
(* Properties                                                              *)
(***************************************************************************)
\* C1: for an interval n >= 1, isDateSupport is true exactly when the number
\* of weeks between the Monday of the anchor's week and the Monday of the
\* target's week is a multiple of n.
C1_MultipleOfInterval ==
    (op = "isDateSupport" /\ IntervalAtLeastOne) =>
        (support <=> ((TargetWeek - AnchorWeek) % settings.interval.v = 0))

C1_Witness ==
    /\ op = "isDateSupport"
    /\ tz = "Australia/Sydney"
    /\ settings.interval = Num(3)
    /\ TargetWeek - AnchorWeek = -3
    /\ support

\* C2: for an interval n >= 1, every run of n consecutive weeks that holds
\* the target's week (before, after, at or across the anchor week) has
\* exactly one active week.
C2_Periodicity ==
    (op = "isDateSupport" /\ IntervalAtLeastOne) =>
        LET n == settings.interval.v
            Active(w) == IF w = TargetWeek THEN support
                         ELSE isDateSupport(WeekRep(w), settings, tz)
        IN \A s \in (TargetWeek - n + 1) .. TargetWeek :
              (s >= FirstWeek /\ s + n - 1 <= LastWeek) =>
                 /\ \A w \in s .. (s + n - 1) : WeekOf(LocalDay(WeekRep(w), tz)) = w
                 /\ Cardinality({w \in s .. (s + n - 1) : Active(w)}) = 1

C2_Witness ==
    /\ op = "isDateSupport"
    /\ settings.interval = Num(3)
    /\ TargetWeek = AnchorWeek - 1
    /\ TargetWeek - 1 >= FirstWeek
    /\ ~support

\* C3: a target in the same Monday-to-Sunday week as the anchor is a support
\* date for every interval n >= 1.
C3_AnchorWeekActive ==
    (op = "isDateSupport" /\ IntervalAtLeastOne /\ TargetWeek = AnchorWeek) => support

C3_Witness ==
    /\ op = "isDateSupport"
    /\ tz = "America/New_York"
    /\ settings.interval = Num(2)
    /\ TargetWeek = AnchorWeek
    /\ target # ParseDate(settings.baseDate)
    /\ support

\* C4: getWeekMonday returns a date whose weekday is Monday and whose hours,
\* minutes, seconds and milliseconds are zero.
C4_MondayMidnight ==
    (op = "getWeekMonday") => (getDay(monday, tz) = 1 /\ TimeOfDay(monday, tz) = 0)

C4_Witness ==
    /\ op = "getWeekMonday"
    /\ tz = "Europe/Berlin"
    /\ getDay(target, tz) = 0
    /\ TimeOfDay(target, tz) # 0
    /\ getDay(monday, tz) = 1

\* C5: all days of one Monday-to-Sunday week, at any time of day, are mapped
\* to that week's Monday at midnight; a Sunday goes six days back.
C5_SameWeekSameMonday ==
    (op = "getWeekMonday") =>
        /\ LocalTime(monday, tz) = [day |-> MondayOfWeek(TargetWeek), ms |-> 0]
        /\ \A d \in DatesOfWeek(TargetWeek) : getWeekMonday(d, tz) = monday
        /\ (WeekDay(LocalDay(target, tz)) = 0) =>
              (LocalDay(monday, tz) = LocalDay(target, tz) - 6)

C5_Witness ==
    /\ op = "getWeekMonday"
    /\ WeekDay(LocalDay(target, tz)) = 0
    /\ TimeOfDay(target, tz) # 0
    /\ {WeekDay(LocalDay(d, tz)) : d \in DatesOfWeek(TargetWeek)} = 0 .. 6
    /\ LocalDay(monday, tz) = LocalDay(target, tz) - 6

\* C6: isDateSupport gives one result for all target dates of one week, in
\* particular for the Saturday and the Sunday of one weekend.
C6_SameWeekSameResult ==
    (op = "isDateSupport") =>
        \A d \in DatesOfWeek(TargetWeek) : isDateSupport(d, settings, tz) = support

C6_Witness ==
    /\ op = "isDateSupport"
    /\ settings.interval = Num(2)
    /\ WeekDay(LocalDay(target, tz)) = 6
    /\ \E d \in DatesOfWeek(TargetWeek) : WeekDay(LocalDay(d, tz)) = 0
    /\ ~support

\* C7: a date j weeks before the anchor week and a date j weeks after it get
\* the same result, for every interval.
C7_Symmetry ==
    (op = "isDateSupport") =>
        \A d \in DatesOfWeek(AnchorWeek - (TargetWeek - AnchorWeek)) :
            isDateSupport(d, settings, tz) = support

C7_Witness ==
    /\ op = "isDateSupport"
    /\ settings.interval = Num(2)
    /\ TargetWeek = AnchorWeek - 2
    /\ DatesOfWeek(AnchorWeek + 2) # {}
    /\ support

\* C8: with interval 1, or a falsy interval (0, undefined, NaN), every target
\* date is a support date.
C8_EveryWeek ==
    (op = "isDateSupport" /\ (settings.interval = Num(1) \/ ~ToBoolean(settings.interval)))
        => support

C8_Witness ==
    /\ op = "isDateSupport"
    /\ settings.interval = Num(0)
    /\ TargetWeek # AnchorWeek
    /\ support

\* C9: getWeekMonday is idempotent.
C9_Idempotent ==
    (op = "getWeekMonday") => (getWeekMonday(monday, tz) = monday)

C9_Witness ==
    /\ op = "getWeekMonday"
    /\ monday # target
    /\ LocalDay(monday, tz) # LocalDay(target, tz)
    /\ getWeekMonday(monday, tz) = monday

\* C10: getWeekMonday goes back 6 days from a Sunday and (weekday - 1) days
\* from any other day, so the result is not later than the input and at most
\* 6 days earlier, also when the Monday lies in the previous month or year.
C10_DaysBack ==
    (op = "getWeekMonday") =>
        LET wd == WeekDay(LocalDay(target, tz))
            back == LocalDay(target, tz) - LocalDay(monday, tz)
        IN /\ back = (IF wd = 0 THEN 6 ELSE wd - 1)
           /\ back \in 0 .. 6
           /\ ~Before(target, monday)

C10_Witness ==
    /\ op = "getWeekMonday"
    /\ YearFromDay(LocalDay(monday, tz)) < YearFromDay(LocalDay(target, tz))
    /\ DateFromDay(LocalDay(target, tz)) - WeekDay(LocalDay(target, tz)) + 1 <= 0
    /\ LocalDay(target, tz) - LocalDay(monday, tz) = WeekDay(LocalDay(target, tz)) - 1

\* the Mondays compared by isDateSupport are not a whole number of weeks apart
MondaysShifted ==
    LET d == TimeDiff(getWeekMonday(target, tz),
                      getWeekMonday(ParseDate(settings.baseDate), tz))
    IN d.ms # 0 \/ d.day % DaysPerWeek # 0

\* C11: when the local midnights of the two Mondays differ from a whole
\* number of weeks by a daylight-saving shift, diffWeeks is still the number
\* of calendar weeks between the two weeks, after and before the anchor.
C11_RoundAbsorbsShift ==
    (op = "isDateSupport" /\ MondaysShifted) =>
        (diffWeeks(target, settings, tz) = TargetWeek - AnchorWeek)

C11_Witness ==
    /\ op = "isDateSupport"
    /\ tz = "Australia/Sydney"
    /\ MondaysShifted
    /\ TargetWeek - AnchorWeek = 1
    /\ TimeDiff(getWeekMonday(target, tz),
                getWeekMonday(ParseDate(settings.baseDate), tz))
         = [day |-> 7, ms |-> 0 - 3600000]
    /\ diffWeeks(target, settings, tz) = 1

\* C12: two anchors in the same Monday-to-Sunday week give the same result
\* for every target date and interval.
C12_AnchorWeekdayIrrelevant ==
    (op = "isDateSupport") =>
        \A b \in BaseDates :
            (WeekOf(LocalDay(ParseDate(b), tz)) = AnchorWeek) =>
                (isDateSupport(target, [settings EXCEPT !.baseDate = b], tz) = support)

C12_Witness ==
    /\ op = "isDateSupport"
    /\ settings.interval = Num(2)
    /\ TargetWeek = AnchorWeek + 1
    /\ \E b \in BaseDates :
          /\ WeekOf(LocalDay(ParseDate(b), tz)) = AnchorWeek
          /\ WeekDay(LocalDay(ParseDate(b), tz)) = 0
          /\ WeekDay(LocalDay(ParseDate(settings.baseDate), tz)) = 1
    /\ ~support

\* the target dates on the local calendar day of d
DatesOfDay(d) ==
    {e \in [day : {x \in (d.day - 1) .. (d.day + 1) : x \in Days}, ms : TimesOfDay] :
        LocalDay(e, tz) = LocalDay(d, tz)}

\* C13: targets, and anchors, with the same year, month and day but different
\* times of day give the same getWeekMonday and isDateSupport result.
C13_TimeOfDayIgnored ==
    /\ (op = "getWeekMonday") =>
          \A e \in DatesOfDay(target) : getWeekMonday(e, tz) = monday
    /\ (op = "isDateSupport") =>
          /\ \A e \in DatesOfDay(target) : isDateSupport(e, settings, tz) = support
          /\ \A b \in BaseDates :
                (LocalDay(ParseDate(b), tz) = LocalDay(ParseDate(settings.baseDate), tz)) =>
                   /\ getWeekMonday(ParseDate(b), tz)
                        = getWeekMonday(ParseDate(settings.baseDate), tz)
                   /\ isDateSupport(target, [settings EXCEPT !.baseDate = b], tz) = support

C13_Witness ==
    /\ op = "getWeekMonday"
    /\ TimeOfDay(target, tz) # 0
    /\ \E e \in DatesOfDay(target) : TimeOfDay(e, tz) # TimeOfDay(target, tz)
    /\ \E b, c \in BaseDates :
          /\ b # c
          /\ LocalDay(ParseDate(b), tz) = LocalDay(ParseDate(c), tz)
    /\ \A e \in DatesOfDay(target) : getWeekMonday(e, tz) = monday

\* C15: settings that differ only in saturday, sunday or customBg give the
\* same isDateSupport result.
C15_OnlyAnchorAndInterval ==
    (op = "isDateSupport") =>
        \A sat \in BOOLEAN, sun \in BOOLEAN, bg \in {"undefined", "data:image/png;base64"} :
            isDateSupport(target,
                          [settings EXCEPT !.saturday = sat, !.sunday = sun, !.customBg = bg],
                          tz) = support

C15_Witness ==
    /\ op = "isDateSupport"
    /\ getDay(target, tz) = 0
    /\ settings.interval = Num(2)
    /\ settings.sunday
    /\ support

\* C16: for every date and every interval 0 .. MaxInterval getWeekMonday
\* returns a valid time value and isDateSupport a truth value computed from a
\* numeric remainder (no division by zero, no NaN).
C16_Total ==
    /\ (op = "getWeekMonday") =>
          (monday.ms \in 0 .. (MsPerDay - 1) /\ monday # NoDate)
    /\ (op = "isDateSupport" /\ settings.interval.kind = "number") =>
          /\ Remainder(MathAbs(Num(diffWeeks(target, settings, tz))),
                       OrElse(settings.interval, Num(1))).kind = "number"
          /\ support \in BOOLEAN

C16_Witness ==
    /\ op = "isDateSupport"
    /\ settings.interval = Num(0)
    /\ TargetWeek # AnchorWeek
    /\ diffWeeks(target, settings, tz) # 0
    /\ support \in BOOLEAN

\* C14: a call changes neither the Date object passed in nor the settings,
\* and the Date returned by getWeekMonday is a new object; the result is the
\* one the function gives for the argument's value alone.
C14_NoMutation ==
    [][(op' # "none") =>
          /\ settings' = settings
          /\ heap'[argRef'] = target'
          /\ (op' = "getWeekMonday") =>
                (retRef' # argRef' /\ heap'[retRef'] = monday')
          /\ (op' = "isDateSupport") =>
                (isDateSupportObj(<<target'>>, 1, settings', tz').ret = support')]_vars

C14_Witness ==
    /\ op = "getWeekMonday"
    /\ monday # target
    /\ heap[argRef] = target
    /\ retRef # argRef
    /\ heap[retRef] = monday

(***************************************************************************)
(* The application: state restored from local storage, the cloud fetch at  *)
(* start, the persist effect, the cards, the edit modal and its suggestion *)
(* request, the optimistic saves.                                          *)
(***************************************************************************)
MaxSaves == 1
MaxUploads == 1

\* the instant the page is opened: Wednesday 2023-10-25 12:34:56.789 UTC
Today == [day |-> OriginDay + 2, ms |-> MakeTime(12, 34, 56, 789)]

AppZones == {"America/New_York"}

\* { ...a, ...b } of two records or of two maps keyed by id
Spread(a, b) ==
    [k \in (DOMAIN a) \cup (DOMAIN b) |-> IF k \in DOMAIN b THEN b[k] ELSE a[k]]

\* the days from cur to last that are a Saturday or a Sunday
RECURSIVE WeekendDatesFrom(_, _, _)
WeekendDatesFrom(cur, last, z) ==
    IF Before(last, cur)
    THEN {}
    ELSE (IF getDay(cur, z) \in {6, 0} THEN {cur} ELSE {})
         \cup WeekendDatesFrom(setDate(cur, getDate(cur, z) + 1, z), last, z)

\* the dates of the cards, for a window of the current Sunday-to-Saturday
\* week; the page computes them once, at its first render
groupedWeeks(z) ==
    LET today == Today
        start == setDate(today, getDate(today, z) - getDay(today, z), z)
        last == setDate(today, getDate(today, z) + (6 - getDay(today, z)), z)
    IN WeekendDatesFrom(start, last, z)

\* the id of the card of a date
IdOf(date) == DatePart(toISOString(date))

TypeOfDate(date, z) == IF getDay(date, z) = 6 THEN "Saturday" ELSE "Sunday"

\* the record the card of a date shows: the stored day or an empty default
dayData(days, date, z) ==
    LET id == IdOf(date)
    IN IF id \in DOMAIN days
       THEN days[id]
       ELSE [id |-> id, date |-> date, type |-> TypeOfDate(date, z), plan |-> "",
             isBusy |-> FALSE, isSupport |-> FALSE, recurring |-> "none"]

\* a card that shows the manual flag only when the schedule is off
activeSupportOverride(days, st, date, z) ==
    IF IdOf(date) \in DOMAIN days
    THEN dayData(days, date, z).isSupport
    ELSE isDateSupport(date, st, z)

\* the activeSupport property of the card of a date
activeSupport(days, st, date, z) ==
    LET hasRecurringSupport == isDateSupport(date, st, z)
    IN dayData(days, date, z).isSupport \/ hasRecurringSupport

\* what the rendered cards show
Render(dates, days, st, z) == [date \in dates |-> activeSupport(days, st, date, z)]

(***************************************************************************)
(* JSON: a Date is written as its ISO string, NaN as null, and a field     *)
(* whose value is undefined is left out; reading a field that is left out  *)
(* gives undefined.                                                        *)
(***************************************************************************)
Null == [kind |-> "null", v |-> 0]

SettingsFields == {"saturday", "sunday", "interval", "baseDate", "customBg"}

JSONValue(f, v) == IF f = "interval" /\ v.kind = "NaN" THEN Null ELSE v

\* the fields that can hold undefined: the interval and the background
IsUndefined(f, v) ==
    IF f = "interval" THEN v.kind = "undefined"
    ELSE IF f = "customBg" THEN v = "undefined"
    ELSE FALSE

MissingField(f) == IF f = "interval" THEN Undefined ELSE "undefined"

JSONStringifySettings(st) ==
    [f \in {g \in DOMAIN st : ~IsUndefined(g, st[g])} |-> JSONValue(f, st[f])]

JSONStringify(days, st) ==
    [weekendDays |-> [id \in DOMAIN days |-> [days[id] EXCEPT !.date = toISOString(@)]],
     recurringSupport |-> JSONStringifySettings(st)]

\* the fields of a parsed settings object as the code reads them
ReadSettings(json) ==
    [f \in SettingsFields |-> IF f \in DOMAIN json THEN json[f] ELSE MissingField(f)]

\* JSON.parse and the conversion of each stored date into a Date
RestoreDays(snapshot) ==
    [id \in DOMAIN snapshot.weekendDays |->
        [snapshot.weekendDays[id] EXCEPT !.date = ParseDate(@)]]

RestoreSettings(snapshot) == ReadSettings(snapshot.recurringSupport)

DefaultSettings ==
    [saturday |-> TRUE, sunday |-> TRUE, interval |-> Num(1),
     baseDate |-> DatePart(toISOString(Today)), customBg |-> "undefined"]

(***************************************************************************)
(* Inputs of the application                                               *)
(***************************************************************************)
SundayCard(z) == CHOOSE date \in groupedWeeks(z) : getDay(date, z) = 0

\* "2023-10-16"
AppBaseDates == {DatePart(toISOString([day |-> OriginDay - 7, ms |-> 0]))}

\* a snapshot left by an earlier visit: a manual support flag on the Sunday
\* and a schedule of every second week from 2023-10-16
SavedSnapshots(z) ==
    LET date == SundayCard(z)
        day == [id |-> IdOf(date), date |-> date, type |-> "Sunday", plan |-> "Brunch",
                isBusy |-> FALSE, isSupport |-> TRUE, recurring |-> "none"]
        st == [DefaultSettings EXCEPT !.interval = Num(2),
                  !.baseDate = DatePart(toISOString([day |-> OriginDay - 7, ms |-> 0]))]
    IN {JSONStringify([id \in {day.id} |-> day], st)}

\* the rows of weekend_plans the cloud can answer with: none, or one row for
\* the Saturday
CloudPlanRows(dates, z) ==
    LET date == CHOOSE d \in dates : getDay(d, z) = 6
    IN {{},
        {[id |-> IdOf(date), date |-> toISOString(date), type |-> "Saturday",
          plan |-> "Cloud", is_busy |-> TRUE, is_support |-> FALSE]}}

\* the recurring_support object of the settings row, when there is a row
CloudSettingsValues ==
    {<< >>,
     <<[saturday |-> TRUE, sunday |-> TRUE, interval |-> Num(1),
        baseDate |-> DatePart(toISOString([day |-> OriginDay, ms |-> 0]))]>>}

\* Promise.all of the two selects rejects
Thrown == [kind |-> "throw", rows |-> {}, settings |-> << >>]

\* the two selects answer: with data, or with an error and no data
Answers(dates, z) ==
    {[kind |-> "error", rows |-> {}, settings |-> << >>]}
    \cup [kind : {"ok"}, rows : CloudPlanRows(dates, z), settings : CloudSettingsValues]

\* what the controls of the header can pass to updateSupportSettings
SettingsUpdates ==
    {[interval |-> Num(2)]} \cup {[baseDate |-> b] : b \in AppBaseDates}

\* the update of a finished upload of a background image
BgUpdate == [customBg |-> "data:image"]

\* what the user can type as a plan
UserPlans == {"Hike"}

\* response.text of the model: missing, or a text with or without whitespace
\* around its body
ResponseTexts ==
    {[kind |-> "undefined", pad |-> FALSE, body |-> ""]}
    \cup [kind : {"text"}, pad : {TRUE}, body : {"", "Hike in the woods"}]

\* how a request to the model ends
Responses == ResponseTexts \cup {[kind |-> "error", pad |-> FALSE, body |-> ""]}

\* String.prototype.trim
trim(text) == text.body

(***************************************************************************)
(* geminiService.ts                                                        *)
(***************************************************************************)
\* new GoogleGenAI({ apiKey }): the browser client refuses a missing key
GoogleGenAI(key) == IF key THEN "client" ELSE "throws"

\* the value getSmartWeekendSuggestion settles with once the request of its
\* client has ended with resp
SuggestionOf(isBusy, resp) ==
    IF resp.kind = "error"
    THEN (IF isBusy THEN "Busy day" ELSE "Free day")
    ELSE IF resp.kind # "undefined" /\ trim(resp) # ""
         THEN trim(resp)
         ELSE (IF isBusy THEN "Important tasks" ELSE "Fun activity")

\* the promise of a call of getSmartWeekendSuggestion(isBusy) when the call
\* returns: the client is made before the try block
getSmartWeekendSuggestion(key, isBusy) ==
    LET ai == GoogleGenAI(key)
    IN [isBusy |-> isBusy, value |-> "", mounted |-> TRUE,
        status |-> IF ai = "throws" THEN "rejected" ELSE "pending"]

(***************************************************************************)
(* The application as a state machine.  A state is what the page holds     *)
(* between two events: the React state, the snapshot in local storage,     *)
(* the requests in flight and what the cards show.                         *)
(***************************************************************************)
\* the first render: the state comes from the snapshot or from the default,
\* the cloud fetch has started and nothing is written yet
PageInit(keys) ==
    /\ tz \in AppZones
    /\ op = "none"
    /\ target = NoDate
    /\ monday = NoDate
    /\ support = FALSE
    /\ heap = << >>
    /\ argRef = 0
    /\ retRef = 0
    /\ apiKey \in keys
    /\ localStorage \in {<< >>} \cup {<<snapshot>> : snapshot \in SavedSnapshots(tz)}
    /\ weekendDays = IF localStorage = << >> THEN << >> ELSE RestoreDays(localStorage[1])
    /\ settings = IF localStorage = << >> THEN DefaultSettings
                  ELSE RestoreSettings(localStorage[1])
    /\ loading = TRUE
    /\ fetching = TRUE
    /\ syncing = FALSE
    /\ editingDay = << >>
    /\ modal = << >>
    /\ effectPending = FALSE
    /\ saves = << >>
    /\ nSaves = 0
    /\ suggest = << >>
    /\ escaped = FALSE
    /\ cards = Render(groupedWeeks(tz), weekendDays, settings, tz)
    /\ response = << >>
    /\ upload = << >>
    /\ nUploads = 0
    /\ MemoAbsent

\* the page of a deployment that has its API key
AppInit == PageInit({TRUE})

\* the page of a deployment with or without an API key
ModalInit == PageInit(BOOLEAN)

\* React runs the effects of a render before it handles the next event or
\* the next settled request
EffectsFlushed == ~effectPending

\* the days of the rows of a fetch
cloudPlans(rows) ==
    [id \in {p.id : p \in rows} |->
        LET p == CHOOSE q \in rows : q.id = id
        IN [id |-> p.id, date |-> ParseDate(p.date), type |-> p.type, plan |-> p.plan,
            isBusy |-> p.is_busy, isSupport |-> p.is_support, recurring |-> "none"]]

\* a merge in which the local record of a day wins over the cloud
SyncWithCloudSettleLocalFirst ==
    /\ EffectsFlushed
    /\ fetching
    /\ fetching' = FALSE
    /\ loading' = FALSE
    /\ effectPending' = TRUE
    /\ \/ /\ response' = <<Thrown>>
          /\ UNCHANGED <<weekendDays, settings, cards>>
       \/ \E answer \in Answers(DOMAIN cards, tz) :
             LET cloudSettings == answer.settings
             IN /\ response' = <<answer>>
                /\ weekendDays' = Spread(cloudPlans(answer.rows), weekendDays)
                /\ settings' = IF cloudSettings # << >>
                               THEN Spread(settings, cloudSettings[1])
                               ELSE settings
                /\ cards' = Render(DOMAIN cards, weekendDays', settings', tz)
    /\ UNCHANGED <<tz, utilVars, memoVars, syncing, editingDay, modal, localStorage, saves,
                   nSaves, suggest, apiKey, escaped, upload, nUploads>>

\* a fetch that empties the days when it throws
SyncWithCloudSettleClear ==
    /\ EffectsFlushed
    /\ fetching
    /\ fetching' = FALSE
    /\ loading' = FALSE
    /\ effectPending' = TRUE
    /\ \/ /\ response' = <<Thrown>>
          /\ weekendDays' = << >>
          /\ cards' = Render(DOMAIN cards, weekendDays', settings, tz)
          /\ UNCHANGED settings
       \/ \E answer \in Answers(DOMAIN cards, tz) :
             LET cloudSettings == answer.settings
             IN /\ response' = <<answer>>
                /\ weekendDays' = Spread(weekendDays, cloudPlans(answer.rows))
                /\ settings' = IF cloudSettings # << >>
                               THEN Spread(settings, cloudSettings[1])
                               ELSE settings
                /\ cards' = Render(DOMAIN cards, weekendDays', settings', tz)
    /\ UNCHANGED <<tz, utilVars, memoVars, syncing, editingDay, modal, localStorage, saves,
                   nSaves, suggest, apiKey, escaped, upload, nUploads>>

\* a fetch without its finally block: a throw leaves loading as it is
SyncWithCloudSettleNoFinally ==
    /\ EffectsFlushed
    /\ fetching
    /\ fetching' = FALSE
    /\ effectPending' = TRUE
    /\ \/ /\ response' = <<Thrown>>
          /\ loading' = loading
          /\ UNCHANGED <<weekendDays, settings, cards>>
       \/ \E answer \in Answers(DOMAIN cards, tz) :
             LET cloudSettings == answer.settings
             IN /\ response' = <<answer>>
                /\ loading' = FALSE
                /\ weekendDays' = Spread(weekendDays, cloudPlans(answer.rows))
                /\ settings' = IF cloudSettings # << >>
                               THEN Spread(settings, cloudSettings[1])
                               ELSE settings
                /\ cards' = Render(DOMAIN cards, weekendDays', settings', tz)
    /\ UNCHANGED <<tz, utilVars, memoVars, syncing, editingDay, modal, localStorage, saves,
                   nSaves, suggest, apiKey, escaped, upload, nUploads>>

\* syncWithCloud after its await: the answers are merged into the state, or
\* the request has thrown; either way loading ends
SyncWithCloudSettle ==
    /\ EffectsFlushed
    /\ fetching
    /\ fetching' = FALSE
    /\ loading' = FALSE
    /\ effectPending' = TRUE
    /\ \/ /\ response' = <<Thrown>>
          /\ UNCHANGED <<weekendDays, settings, cards>>
       \/ \E answer \in Answers(DOMAIN cards, tz) :
             LET cloudSettings == answer.settings
             IN /\ response' = <<answer>>
                /\ weekendDays' = Spread(weekendDays, cloudPlans(answer.rows))
                /\ settings' = IF cloudSettings # << >>
                               THEN Spread(settings, cloudSettings[1])
                               ELSE settings
                /\ cards' = Render(DOMAIN cards, weekendDays', settings', tz)
    /\ UNCHANGED <<tz, utilVars, memoVars, syncing, editingDay, modal, localStorage, saves,
                   nSaves, suggest, apiKey, escaped, upload, nUploads>>

\* the persist effect that writes whatever loading is
PersistEffectUnguarded ==
    /\ effectPending
    /\ effectPending' = FALSE
    /\ localStorage' = <<JSONStringify(weekendDays, settings)>>
    /\ UNCHANGED <<tz, settings, utilVars, memoVars, weekendDays, loading, syncing, editingDay,
                   modal, fetching, saves, nSaves, suggest, apiKey, escaped, cards,
                   response, upload, nUploads>>

\* the persist effect, run after a render in which state or loading changed
PersistEffect ==
    /\ effectPending
    /\ effectPending' = FALSE
    /\ localStorage' = IF ~loading
                       THEN <<JSONStringify(weekendDays, settings)>>
                       ELSE localStorage
    /\ UNCHANGED <<tz, settings, utilVars, memoVars, weekendDays, loading, syncing, editingDay,
                   modal, fetching, saves, nSaves, suggest, apiKey, escaped, cards,
                   response, upload, nUploads>>

\* a click on a card: setEditingDay(dayData); the modal mounts with the
\* fields of the day
OnEdit ==
    \E date \in DOMAIN cards :
        /\ EffectsFlushed
        /\ editingDay = << >>
        /\ editingDay' = <<dayData(weekendDays, date, tz)>>
        /\ modal' = <<[plan |-> editingDay'[1].plan, isBusy |-> editingDay'[1].isBusy,
                       isSupport |-> editingDay'[1].isSupport,
                       loadingSuggestion |-> FALSE]>>
        /\ UNCHANGED <<tz, settings, utilVars, memoVars, weekendDays, loading, syncing,
                       localStorage, effectPending, fetching, saves, nSaves, suggest,
                       apiKey, escaped, cards,
                   response, upload, nUploads>>

\* the request of a modal that is gone: a settled one is dropped with the
\* modal, a pending one can no longer set the fields
Unmounted(sg) ==
    IF sg = << >> \/ sg[1].status # "pending"
    THEN << >>
    ELSE <<[sg[1] EXCEPT !.mounted = FALSE]>>

\* the backdrop, the X button or Discard: setEditingDay(null)
OnClose ==
    /\ EffectsFlushed
    /\ editingDay # << >>
    /\ editingDay' = << >>
    /\ modal' = << >>
    /\ suggest' = Unmounted(suggest)
    /\ UNCHANGED <<tz, settings, utilVars, memoVars, weekendDays, loading, syncing, localStorage,
                   effectPending, fetching, saves, nSaves, apiKey, escaped, cards,
                   response, upload, nUploads>>

\* the textarea and the support toggle of the modal
EditFields ==
    /\ EffectsFlushed
    /\ modal # << >>
    /\ \/ \E p \in UserPlans : modal' = <<[modal[1] EXCEPT !.plan = p]>>
       \/ modal' = <<[modal[1] EXCEPT !.isSupport = ~modal[1].isSupport]>>
    /\ modal' # modal
    /\ UNCHANGED <<tz, settings, utilVars, memoVars, weekendDays, loading, syncing, editingDay,
                   localStorage, effectPending, fetching, saves, nSaves, suggest,
                   apiKey, escaped, cards,
                   response, upload, nUploads>>

\* the Free and Busy buttons of the modal
SetIsBusy ==
    \E b \in BOOLEAN :
        /\ EffectsFlushed
        /\ modal # << >>
        /\ modal' = <<[modal[1] EXCEPT !.isBusy = b]>>
        /\ modal' # modal
        /\ UNCHANGED <<tz, settings, utilVars, memoVars, weekendDays, loading, syncing, editingDay,
                       localStorage, effectPending, fetching, saves, nSaves, suggest,
                       apiKey, escaped, cards,
                   response, upload, nUploads>>

\* the row handleUpdateDay sends: the recurring field is left out
PlanRow(day) ==
    [id |-> day.id, date |-> toISOString(day.date), type |-> day.type,
     plan |-> day.plan, is_busy |-> day.isBusy, is_support |-> day.isSupport]

\* a handleUpdateDay that waits for the cloud before it shows the edit
handleUpdateDayPessimistic(updatedDay) ==
    /\ EffectsFlushed
    /\ nSaves < MaxSaves
    /\ nSaves' = nSaves + 1
    /\ syncing' = TRUE
    /\ editingDay' = << >>
    /\ modal' = << >>
    /\ suggest' = Unmounted(suggest)
    /\ saves' = Append(saves, [table |-> "weekend_plans", row |-> PlanRow(updatedDay)])
    /\ UNCHANGED <<tz, settings, utilVars, memoVars, loading, localStorage, fetching, apiKey,
                   escaped, weekendDays, effectPending, cards,
                   response, upload, nUploads>>

\* handleUpdateDay up to its await: the optimistic update, the modal closed,
\* the upsert sent
handleUpdateDay(updatedDay) ==
    /\ EffectsFlushed
    /\ nSaves < MaxSaves
    /\ nSaves' = nSaves + 1
    /\ syncing' = TRUE
    /\ weekendDays' = Spread(weekendDays, [id \in {updatedDay.id} |-> updatedDay])
    /\ effectPending' = TRUE
    /\ editingDay' = << >>
    /\ modal' = << >>
    /\ suggest' = Unmounted(suggest)
    /\ saves' = Append(saves, [table |-> "weekend_plans", row |-> PlanRow(updatedDay)])
    /\ cards' = Render(DOMAIN cards, weekendDays', settings, tz)
    /\ UNCHANGED <<tz, settings, utilVars, memoVars, loading, localStorage, fetching, apiKey,
                   escaped,
                   response, upload, nUploads>>

\* a Confirm Weekend that passes the day as it was opened
EditedDayUnedited == editingDay[1]

\* the day Confirm Weekend passes to onSave
EditedDay ==
    [editingDay[1] EXCEPT !.plan = modal[1].plan, !.isBusy = modal[1].isBusy,
                          !.isSupport = modal[1].isSupport, !.recurring = "none"]

\* Confirm Weekend
OnSave ==
    /\ editingDay # << >>
    /\ handleUpdateDay(EditedDay)

\* the sequence without its i-th element
RemoveAt(seq, i) == SubSeq(seq, 1, i - 1) \o SubSeq(seq, i + 1, Len(seq))

\* an upsert in flight ends: it succeeds, it answers with an error, or it
\* throws; the catch block logs and the finally block clears syncing
UpsertSettle ==
    \E i \in 1 .. Len(saves), outcome \in {"ok", "error", "throw"} :
        /\ EffectsFlushed
        /\ saves' = RemoveAt(saves, i)
        /\ syncing' = FALSE
        /\ UNCHANGED <<tz, settings, utilVars, memoVars, weekendDays, loading, editingDay, modal,
                       localStorage, effectPending, fetching, nSaves, suggest, apiKey,
                       escaped, cards,
                   response, upload, nUploads>>

\* updateSupportSettings up to its await; recurringSupport is
\* state.recurringSupport of the render that made the handler
updateSupportSettings(recurringSupport, updates) ==
    LET newSettings == Spread(recurringSupport, updates)
    IN /\ EffectsFlushed
       /\ syncing' = TRUE
       /\ settings' = newSettings
       /\ effectPending' = TRUE
       /\ saves' = Append(saves, [table |-> "weekend_settings",
                                  row |-> [id |-> 1, recurring_support |-> newSettings]])
       /\ cards' = Render(DOMAIN cards, weekendDays, settings', tz)
       /\ UNCHANGED <<tz, utilVars, memoVars, weekendDays, loading, editingDay, modal,
                      localStorage, fetching, suggest, apiKey, escaped, response>>

\* the interval select or the anchor input of the header, handled by the
\* current render
OnChangeSettings ==
    \E updates \in SettingsUpdates :
        /\ nSaves < MaxSaves
        /\ nSaves' = nSaves + 1
        /\ updateSupportSettings(settings, updates)
        /\ UNCHANGED <<upload, nUploads>>

\* the file input: a FileReader starts to read; its onloadend keeps the
\* updateSupportSettings of this render
OnFileChange ==
    /\ EffectsFlushed
    /\ upload = << >>
    /\ nUploads < MaxUploads
    /\ nUploads' = nUploads + 1
    /\ upload' = <<settings>>
    /\ UNCHANGED <<tz, settings, utilVars, memoVars, weekendDays, loading, syncing, editingDay,
                   modal, localStorage, effectPending, fetching, saves, nSaves, suggest,
                   apiKey, escaped, cards, response>>

\* reader.onloadend: updateSupportSettings({ customBg: reader.result })
OnLoadEnd ==
    /\ upload # << >>
    /\ upload' = << >>
    /\ updateSupportSettings(upload[1], BgUpdate)
    /\ UNCHANGED <<nSaves, nUploads>>

\* Smart Idea, up to the await of handleMagicSuggestion; nothing catches a
\* rejected promise there
handleMagicSuggestion ==
    /\ EffectsFlushed
    /\ modal # << >>
    /\ ~modal[1].loadingSuggestion
    /\ modal' = <<[modal[1] EXCEPT !.loadingSuggestion = TRUE]>>
    /\ suggest' = <<getSmartWeekendSuggestion(apiKey, modal[1].isBusy)>>
    /\ escaped' = (escaped \/ suggest'[1].status = "rejected")
    /\ UNCHANGED <<tz, settings, utilVars, memoVars, weekendDays, loading, syncing, editingDay,
                   localStorage, effectPending, fetching, saves, nSaves, apiKey, cards,
                   response, upload, nUploads>>

\* the request of the model ends and handleMagicSuggestion resumes: setPlan
\* and setLoadingSuggestion(false), which a modal that is gone ignores
SuggestionSettle ==
    \E resp \in Responses :
        /\ EffectsFlushed
        /\ suggest # << >>
        /\ suggest[1].status = "pending"
        /\ LET suggestion == SuggestionOf(suggest[1].isBusy, resp)
           IN IF suggest[1].mounted
              THEN /\ suggest' = <<[suggest[1] EXCEPT !.status = "resolved",
                                                      !.value = suggestion]>>
                   /\ modal' = <<[modal[1] EXCEPT !.plan = suggestion,
                                                  !.loadingSuggestion = FALSE]>>
              ELSE /\ suggest' = << >>
                   /\ modal' = modal
        /\ UNCHANGED <<tz, settings, utilVars, memoVars, weekendDays, loading, syncing, editingDay,
                       localStorage, effectPending, fetching, saves, nSaves, apiKey,
                       escaped, cards,
                   response, upload, nUploads>>

\* the page while the user leaves the Free, Busy and Smart Idea buttons alone
AppNext ==
    \/ SyncWithCloudSettle
    \/ PersistEffect
    \/ OnEdit
    \/ OnClose
    \/ EditFields
    \/ SetIsBusy
    \/ OnSave
    \/ UpsertSettle
    \/ OnChangeSettings

AppSpec == AppInit /\ [][AppNext]_vars

\* the requests end and React runs the effects it has scheduled
FairAppSpec ==
    /\ AppSpec
    /\ WF_vars(SyncWithCloudSettle)
    /\ WF_vars(PersistEffect)
    /\ WF_vars(UpsertSettle)

\* the modal and its suggestions while the cloud fetch of the page is still
\* in flight
ModalNext ==
    \/ OnEdit
    \/ OnClose
    \/ EditFields
    \/ SetIsBusy
    \/ handleMagicSuggestion
    \/ SuggestionSettle
    \/ OnSave
    \/ PersistEffect
    \/ UpsertSettle

ModalSpec == ModalInit /\ [][ModalNext]_vars

\* the header of the page: the settings controls and the theme upload, with
\* the cards left alone
HeaderNext ==
    \/ SyncWithCloudSettle
    \/ PersistEffect
    \/ OnChangeSettings
    \/ OnFileChange
    \/ OnLoadEnd
    \/ UpsertSettle

HeaderSpec == AppInit /\ [][HeaderNext]_vars

(***************************************************************************)
(* Reference notions for the properties of the application                 *)
(***************************************************************************)
\* the recurring schedule is active in the week of a date: the week lies a
\* multiple of the interval away from the week of the anchor
ScheduleActive(date) ==
    LET n == WeekOf(LocalDay(date, tz)) - AnchorWeek
    IN (IF n < 0 THEN 0 - n ELSE n) % settings.interval.v = 0

\* a day has a stored record whose manual support flag is set
HasFlag(days, date) == IdOf(date) \in DOMAIN days /\ days[IdOf(date)].isSupport

\* the snapshot of the state in memory
Snapshot == <<JSONStringify(weekendDays, settings)>>

\* a step that is a call of handleUpdateDay: an upsert of a plan is sent
IsUpdateDay ==
    /\ editingDay # << >>
    /\ Len(saves') = Len(saves) + 1
    /\ saves'[Len(saves')].table = "weekend_plans"

\* a step in which an upsert ends
IsUpsertEnd == Len(saves') < Len(saves)

(***************************************************************************)
(* C17: a card is shown as a support day exactly when the stored record of *)
(* its day has the manual flag set or the recurring schedule is active in  *)
(* the week of its date; without a stored record, exactly when the         *)
(* schedule is active; and a step that leaves the settings and the manual  *)
(* flag of a day as they are leaves what the card of that day shows, so    *)
(* the flag of one day never changes the card of another.                  *)
(***************************************************************************)
C17_ManualOrRecurring ==
    /\ [](\A date \in DOMAIN cards :
             cards[date] = (HasFlag(weekendDays, date) \/ ScheduleActive(date)))
    /\ [][\A date \in DOMAIN cards :
             (settings' = settings /\ HasFlag(weekendDays', date) = HasFlag(weekendDays, date))
                => cards'[date] = cards[date]]_vars

\* a day carries the manual flag in a week in which the schedule is off and
\* its card shows support, while the card of the other day stays as it was
C17_Witness ==
    /\ nSaves > 0
    /\ \E date \in DOMAIN cards :
          /\ HasFlag(weekendDays, date)
          /\ ~ScheduleActive(date)
          /\ cards[date]
          /\ \E other \in DOMAIN cards : other # date /\ ScheduleActive(other)

C19_OptimisticUpdate ==
    [][/\ IsUpdateDay =>
            /\ DOMAIN weekendDays' = DOMAIN weekendDays \cup {EditedDay.id}
            /\ weekendDays'[EditedDay.id] = EditedDay
            /\ \A id \in DOMAIN weekendDays \ {EditedDay.id} :
                  weekendDays'[id] = weekendDays[id]
            /\ settings' = settings
            /\ editingDay' = << >>
       /\ IsUpsertEnd =>
            /\ weekendDays' = weekendDays
            /\ settings' = settings
            /\ editingDay' = editingDay
            /\ escaped' = escaped]_vars

\* an edit of the user is in the state after its upsert has ended
C19_Witness ==
    /\ nSaves > 0
    /\ saves = << >>
    /\ ~syncing
    /\ editingDay = << >>
    /\ ~escaped
    /\ \E id \in DOMAIN weekendDays : weekendDays[id].plan \in UserPlans

(***************************************************************************)
(* C20: getSmartWeekendSuggestion never rejects and settles with a string  *)
(* that is not empty, and the loadingSuggestion flag of the modal is set   *)
(* only while a request that will clear it is pending.                     *)
(***************************************************************************)
C20_SuggestionNeverRejects ==
    /\ ~escaped
    /\ suggest # << >> =>
          /\ suggest[1].status # "rejected"
          /\ suggest[1].status = "resolved" =>
                suggest[1].value \in
                    {"Hike in the woods"} \cup
                    (IF suggest[1].isBusy THEN {"Important tasks", "Busy day"}
                                          ELSE {"Fun activity", "Free day"})
    /\ (modal # << >> /\ modal[1].loadingSuggestion) =>
          (suggest # << >> /\ suggest[1].status = "pending" /\ suggest[1].mounted)

(***************************************************************************)
(* The evaluator written inside the first App component                    *)
(***************************************************************************)
\* the Sunday 00:00 on or before d: setDate(getDate() - getDay()), setHours(0)
getWeekSunday(d, z) ==
    LET moved == setDate(d, getDate(d, z) - getDay(d, z), z)
    IN setHours(moved, 0, 0, 0, 0, z)

\* isDateSupport of the first App component: the day must be enabled, and
\* the weeks are counted between Sundays
App_isDateSupport(targetDate, st, z) ==
    LET isSaturday == getDay(targetDate, z) = 6
        isSunday == getDay(targetDate, z) = 0
        startSunday == getWeekSunday(ParseDate(st.baseDate), z)
        targetSunday == getWeekSunday(targetDate, z)
    IN IF ~((isSaturday /\ st.saturday) \/ (isSunday /\ st.sunday))
       THEN FALSE
       ELSE OnCycle(MathRoundWeeks(TimeDiff(targetSunday, startSunday)), st.interval)

(***************************************************************************)
(* C21: for a Saturday or Sunday target, both days enabled and an interval *)
(* of 1 to 4, the evaluator inside the first App component returns what    *)
(* isDateSupport of utils.ts returns.                                      *)
(***************************************************************************)
C21_InlineAgreesWithUtils ==
    (/\ op = "isDateSupport"
     /\ getDay(target, tz) \in {0, 6}
     /\ settings.saturday /\ settings.sunday
     /\ settings.interval \in {Num(n) : n \in 1 .. 4})
        => App_isDateSupport(target, settings, tz) = support

(***************************************************************************)
(* Reference notions for the properties of the initial fetch               *)
(***************************************************************************)
\* a step in which the initial fetch ends
IsFetchEnd == fetching /\ ~fetching'

\* the state the page got from local storage, which holds what it held at
\* the start for as long as the page is loading
HydratedDays == IF localStorage = << >> THEN << >> ELSE RestoreDays(localStorage[1])
HydratedSettings ==
    IF localStorage = << >> THEN DefaultSettings ELSE RestoreSettings(localStorage[1])

\* a day of the state holds what a row of the cloud says
SameAsRow(day, p) ==
    /\ day.id = p.id
    /\ day.date = ParseDate(p.date)
    /\ day.type = p.type
    /\ day.plan = p.plan
    /\ day.isBusy = p.is_busy
    /\ day.isSupport = p.is_support

(***************************************************************************)
(* C22: when the initial fetch is answered, every day the cloud returned   *)
(* holds the cloud record, every other local day is kept, and every field  *)
(* of the settings comes from the cloud settings when the row has it and   *)
(* keeps its local value otherwise (all fields when there is no row).      *)
(***************************************************************************)
C22_FetchMerges ==
    [][(IsFetchEnd /\ response'[1].kind # "throw") =>
          LET answer == response'[1]
              ids == {p.id : p \in answer.rows}
          IN /\ DOMAIN weekendDays' = DOMAIN weekendDays \cup ids
             /\ \A p \in answer.rows : SameAsRow(weekendDays'[p.id], p)
             /\ \A id \in DOMAIN weekendDays \ ids : weekendDays'[id] = weekendDays[id]
             /\ \A f \in SettingsFields :
                   settings'[f] = IF answer.settings # << >> /\ f \in DOMAIN answer.settings[1]
                                  THEN answer.settings[1][f]
                                  ELSE settings[f]]_vars

\* after an edit the fetch was answered with a day and a settings row; the
\* state holds the day of the cloud and a local day the cloud lacks
C22_Witness ==
    /\ ~loading
    /\ response # << >>
    /\ response[1].kind = "ok"
    /\ response[1].rows # {}
    /\ response[1].settings # << >>
    /\ nSaves > 0
    /\ \E id \in DOMAIN weekendDays : id \notin {p.id : p \in response[1].rows}
    /\ \A p \in response[1].rows : SameAsRow(weekendDays[p.id], p)

(***************************************************************************)
(* C23: when the initial fetch throws, the days and the settings stay as   *)
(* they are, which without an edit is the state from local storage or the  *)
(* default state, and no error leaves the handler.                         *)
(***************************************************************************)
C23_FetchThrowKeepsState ==
    [][(IsFetchEnd /\ response'[1].kind = "throw") =>
          /\ weekendDays' = weekendDays
          /\ settings' = settings
          /\ escaped' = escaped
          /\ nSaves = 0 => (weekendDays' = HydratedDays /\ settings' = HydratedSettings)]_vars

\* the fetch has thrown and the page shows the days from local storage
C23_Witness ==
    /\ ~loading
    /\ response # << >>
    /\ response[1].kind = "throw"
    /\ DOMAIN weekendDays # {}
    /\ ~escaped

(***************************************************************************)
(* C24: loading becomes false, however the initial fetch ends, and once    *)
(* false it never becomes true again.                                      *)
(***************************************************************************)
C24_LoadingEnds ==
    /\ <>(~loading)
    /\ [][~loading => ~loading']_vars

\* loading has ended after an answer that carried an error
C24_Witness ==
    /\ ~loading
    /\ ~fetching
    /\ response # << >>
    /\ response[1].kind = "error"

(***************************************************************************)
(* C25: a day the user saved while the initial fetch was in flight holds   *)
(* the saved value after the fetch has ended.                              *)
(***************************************************************************)
C25_EditSurvivesSync ==
    [][IsFetchEnd =>
          \A id \in DOMAIN weekendDays :
             (id \notin DOMAIN HydratedDays \/ weekendDays[id] # HydratedDays[id])
                => (id \in DOMAIN weekendDays' /\ weekendDays'[id] = weekendDays[id])]_vars

\* a step in which updateSupportSettings is called
IsSettingsCall ==
    /\ Len(saves') = Len(saves) + 1
    /\ saves'[Len(saves')].table = "weekend_settings"

(***************************************************************************)
(* C26: a call of updateSupportSettings changes only the fields it names:  *)
(* the settings after the call are the most recent settings with the       *)
(* update put over them, also when another call or the sync merge changed  *)
(* the settings since the handler was made; and the settings sent to the   *)
(* upsert are the local settings after the call.                           *)
(***************************************************************************)
C26_OnlyNamedFieldsChange ==
    [][IsSettingsCall =>
          /\ \E updates \in SettingsUpdates \cup {BgUpdate} :
                settings' = Spread(settings, updates)
          /\ saves'[Len(saves')].row.recurring_support = settings']_vars

(***************************************************************************)
(* C27: syncing is true exactly when at least one upsert is in flight.     *)
(***************************************************************************)
C27_SyncingIffInFlight == syncing <=> saves # << >>

\* a step in which the modal is closed without a save
IsDiscard ==
    /\ editingDay # << >>
    /\ editingDay' = << >>
    /\ ~IsUpdateDay

(***************************************************************************)
(* C28: Confirm Weekend saves a record with the id, date and type of the   *)
(* day the modal was opened for and the plan, isBusy and isSupport the     *)
(* modal holds at that moment; closing the modal any other way leaves      *)
(* weekendDays and the settings as they are and sends nothing.             *)
(***************************************************************************)
C28_ModalSaveAndCancel ==
    [][/\ IsUpdateDay =>
             LET day == editingDay[1]
                 saved == weekendDays'[day.id]
             IN /\ day.id \in DOMAIN weekendDays'
                /\ saved.id = day.id /\ saved.date = day.date /\ saved.type = day.type
                /\ saved.plan = modal[1].plan
                /\ saved.isBusy = modal[1].isBusy
                /\ saved.isSupport = modal[1].isSupport
                /\ saves'[Len(saves')].row = PlanRow(saved)
       /\ IsDiscard =>
             /\ weekendDays' = weekendDays
             /\ settings' = settings
             /\ saves' = saves
             /\ syncing' = syncing
             /\ effectPending' = effectPending]_vars

\* a day was saved with a plan, busy and support set in the modal
C28_Witness ==
    /\ editingDay = << >>
    /\ saves # << >>
    /\ \E id \in DOMAIN weekendDays :
          /\ weekendDays[id].plan \in UserPlans
          /\ weekendDays[id].isBusy
          /\ weekendDays[id].isSupport
          /\ saves[Len(saves)].row = PlanRow(weekendDays[id])

(***************************************************************************)
(* The callback of groupedWeeks, one iteration of its loop at a time       *)
(***************************************************************************)
\* the largest WEEKS_BEFORE and WEEKS_AFTER followed
MaxWeeks == 1

\* the instants at which the page is opened: each day of a week, at
\* midnight UTC and in the middle of the day
Todays == [day : OriginDay .. (OriginDay + 6), ms : {0, MakeTime(12, 34, 56, 789)}]

\* the callback up to its loop: startDate, endDate and current are set
GroupedWeeksInit ==
    /\ tz \in ZoneNames
    /\ settings = DefaultSettings
    /\ op = "none"
    /\ target = NoDate
    /\ monday = NoDate
    /\ support = FALSE
    /\ heap = << >>
    /\ argRef = 0
    /\ retRef = 0
    /\ AppAbsent
    /\ \E today \in Todays, WEEKS_BEFORE \in 0 .. MaxWeeks, WEEKS_AFTER \in 0 .. MaxWeeks :
          /\ startDate = setDate(today, getDate(today, tz) - getDay(today, tz)
                                          - (7 * WEEKS_BEFORE), tz)
          /\ endDate = setDate(today, getDate(today, tz) + (6 - getDay(today, tz))
                                        + (7 * WEEKS_AFTER), tz)
    /\ current = startDate
    /\ currentWeek = << >>
    /\ weeks = << >>
    /\ returned = FALSE

\* one iteration of while (current <= endDate)
LoopBody ==
    /\ ~returned
    /\ ~Before(endDate, current)
    /\ LET day == getDay(current, tz)
           pushed == IF day = 6 \/ day = 0 THEN Append(currentWeek, current)
                     ELSE currentWeek
       IN /\ weeks' = IF day = 0 THEN Append(weeks, pushed) ELSE weeks
          /\ currentWeek' = IF day = 0 THEN << >> ELSE pushed
    /\ current' = setDate(current, getDate(current, tz) + 1, tz)
    /\ UNCHANGED <<tz, settings, utilVars, appVars, startDate, endDate, returned>>

\* the loop is left: the group still open is pushed and weeks is returned
LoopExit ==
    /\ ~returned
    /\ Before(endDate, current)
    /\ weeks' = IF Len(currentWeek) > 0 THEN Append(weeks, currentWeek) ELSE weeks
    /\ returned' = TRUE
    /\ UNCHANGED <<tz, settings, utilVars, appVars, startDate, endDate, current,
                   currentWeek>>

GroupedWeeksNext == LoopBody \/ LoopExit

GroupedWeeksSpec == GroupedWeeksInit /\ [][GroupedWeeksNext]_vars

\* the dates of all groups, in the order of the groups
RECURSIVE Flat(_)
Flat(groups) == IF groups = << >> THEN << >> ELSE Head(groups) \o Flat(Tail(groups))

\* the local calendar days from startDate to endDate that are a Saturday or
\* a Sunday
WeekendDaysOfWindow ==
    {d \in LocalDay(startDate, tz) .. LocalDay(endDate, tz) : WeekDay(d) \in {6, 0}}

(***************************************************************************)
(* C29: what groupedWeeks returns holds every Saturday and Sunday from     *)
(* startDate to endDate exactly once, in ascending order, and every group  *)
(* is one Saturday followed by the Sunday of the next day.                 *)
(***************************************************************************)
C29_GroupsAreWeekends ==
    returned =>
        LET dates == Flat(weeks)
        IN /\ \A i \in 1 .. Len(dates) - 1 : Before(dates[i], dates[i + 1])
           /\ {LocalDay(dates[i], tz) : i \in 1 .. Len(dates)} = WeekendDaysOfWindow
           /\ Len(dates) = Cardinality(WeekendDaysOfWindow)
           /\ \A i \in 1 .. Len(weeks) :
                 /\ Len(weeks[i]) = 2
                 /\ getDay(weeks[i][1], tz) = 6
                 /\ getDay(weeks[i][2], tz) = 0
                 /\ LocalDay(weeks[i][2], tz) = LocalDay(weeks[i][1], tz) + 1

(***************************************************************************)
(* The modal of components/EditModal.tsx, which lets the user choose the   *)
(* frequency of a day, on the page                                         *)
(***************************************************************************)
RecurringTypes == {"none", "weekly", "monthly"}

\* Confirm Weekend of the modal with the frequency buttons: recurring is
\* the frequency chosen last, or the one of the day
OnSaveRecurring ==
    \E recurring \in RecurringTypes :
        /\ editingDay # << >>
        /\ handleUpdateDay([EditedDay EXCEPT !.recurring = recurring])

RecurringModalNext ==
    \/ SyncWithCloudSettle
    \/ PersistEffect
    \/ OnEdit
    \/ OnClose
    \/ EditFields
    \/ OnSaveRecurring
    \/ UpsertSettle

RecurringModalSpec == AppInit /\ [][RecurringModalNext]_vars

(***************************************************************************)
(* C30: the row handleUpdateDay sends, read back by the mapping of the     *)
(* fetch, is the day that was saved: same id, date, type, plan, isBusy,    *)
(* isSupport and recurring.                                                *)
(***************************************************************************)
C30_RemoteRoundTrip ==
    [][IsUpdateDay =>
          LET row == saves'[Len(saves')].row
              readBack == cloudPlans({row})
          IN /\ DOMAIN readBack = {row.id}
             /\ row.id \in DOMAIN weekendDays'
             /\ readBack[row.id] = weekendDays'[row.id]]_vars
====
